---- MODULE Spec2Model ----
(***************************************************************************)
(* Staircase lighting scheduler of src/src/main.cpp: two presence sensors, *)
(* a pool of MAX_ACTIVE_SEQUENCES ascending and as many descending waves,  *)
(* a clear record per (slot, step), and the DMX bus.                       *)
(*                                                                         *)
(* Every function of the program is an operator from the globals before    *)
(* the call to the globals after it; one step of the model is one pass of  *)
(* loop().  millis() is taken to return one value, now, during a pass.     *)
(***************************************************************************)
EXTENDS Integers, Sequences, FiniteSets, TLC

(* ------------------------------------------------------------------ *)
(* Program constants (main.cpp lines 25-36).                          *)
(* ------------------------------------------------------------------ *)
DEBOUNCE_DELAY == 2000
STEP_UPDATE_DELAY == 550
STEP_CLEAR_DELAY == 2300
NUM_OF_STEPS == 16
MAX_ACTIVE_SEQUENCES == 3

(* ------------------------------------------------------------------ *)
(* Bounds of the model.                                               *)
(* ------------------------------------------------------------------ *)
\* Width of the millisecond counter.  The program's is 32 bits; TLC's
\* integers are 32-bit signed, so the counter is modelled narrower.  All
\* the program does with it is subtract modulo 2^width.
ClockBits == 16
\* Milliseconds from the start of one pass of loop() to the next.
TickMs == 50
\* After power-up a person can stand at a sensor in these passes only.
EarlyArrivals == {20, 40, 60, 80, 120, 160, 240, 287}
\* When nobody came until about PreWrap ms before the counter wraps, persons
\* arrive in every ArrivalEvery-th pass from then on, WrapArrivals + 1 times.
ArrivalEvery == 20
PreWrap == 2500
WrapArrivals == 4
\* The passes go on, after the last arrival, until the stairs are dark or
\* DrainMs ms are over.
DrainMs == 13000

Wrap == 2 ^ ClockBits
ArrivalMs == TickMs * ArrivalEvery
IdleUntil == ((Wrap - PreWrap) \div ArrivalMs) * ArrivalMs
ArrivalTimes ==
  {k * TickMs : k \in EarlyArrivals}
    \cup {IdleUntil + k * ArrivalMs : k \in 0 .. WrapArrivals}
LastEarly == CHOOSE t \in ArrivalTimes : t < IdleUntil /\
               \A u \in ArrivalTimes : u < IdleUntil => u <= t
LastArrival == IdleUntil + WrapArrivals * ArrivalMs

Slots == 0 .. (MAX_ACTIVE_SEQUENCES - 1)
Steps == 0 .. (NUM_OF_STEPS - 1)
Channels == 1 .. NUM_OF_STEPS
Dirs == {"up", "down"}

VARIABLES
  \* the program's globals (lines 38-51)
  sequence_active_up, currentStep, stepUpdateMillis,
  stepClearUpdateMillisUp, upSeq_active,
  sequence_active_down, currentStepDown, stepUpdateMillisDown,
  stepClearUpdateMillisDown, downSeq_active,
  sensorUpdateMillis, stripClearMillis,
  \* the environment: the DMX frame, and millis() in the last pass
  dmx, millis,
  \* history: the unwrapped time of the last pass and of every stamp
  clock, tSensor, tAlloc, tUpd, tLit,
  \* history of the last pass: what readSensors saw and did, the bus writes
  \* in order, the advances, the records cleared
  trig, writes, adv, clr,
  \* history: the steps each slot showed since its allocation, the
  \* channels that were ever written zero, and how often readSensors
  \* stamped the debounce time and started a wave of each direction
  shown, zeroed, count

vars == <<sequence_active_up, currentStep, stepUpdateMillis,
          stepClearUpdateMillisUp, upSeq_active,
          sequence_active_down, currentStepDown, stepUpdateMillisDown,
          stepClearUpdateMillisDown, downSeq_active,
          sensorUpdateMillis, stripClearMillis, dmx, millis,
          clock, tSensor, tAlloc, tUpd, tLit, trig, writes, adv, clr,
          shown, zeroed, count>>

\* The globals, the DMX frame and the bus writes of this pass, as one value.
Globals ==
  [sequence_active_up |-> sequence_active_up,
   currentStep |-> currentStep,
   stepUpdateMillis |-> stepUpdateMillis,
   stepClearUpdateMillisUp |-> stepClearUpdateMillisUp,
   upSeq_active |-> upSeq_active,
   sequence_active_down |-> sequence_active_down,
   currentStepDown |-> currentStepDown,
   stepUpdateMillisDown |-> stepUpdateMillisDown,
   stepClearUpdateMillisDown |-> stepClearUpdateMillisDown,
   downSeq_active |-> downSeq_active,
   sensorUpdateMillis |-> sensorUpdateMillis,
   stripClearMillis |-> stripClearMillis,
   dmx |-> dmx,
   writes |-> <<>>]

(* ------------------------------------------------------------------ *)
(* The tests of the code.                                             *)
(* ------------------------------------------------------------------ *)
\* A subtraction that does not wrap.
ElapsedNoWrap(now, stamp) == now - stamp
\* millis() - stamp, on unsigned integers of ClockBits bits.
Elapsed(now, stamp) == (now - stamp + Wrap) % Wrap

\* A debounce test that refuses a sensor exactly DEBOUNCE_DELAY after the
\* last stamp.
DebounceStrict(now, stamp) == Elapsed(now, stamp) > DEBOUNCE_DELAY
\* Line 194 and line 206.
DebounceOver(now, stamp) == Elapsed(now, stamp) >= DEBOUNCE_DELAY
\* An advance test that lets a slot advance exactly STEP_UPDATE_DELAY after
\* its last advance.
StepDueAtDelay(now, stamp) == Elapsed(now, stamp) >= STEP_UPDATE_DELAY
\* Line 75 and line 108.
StepDue(now, stamp) == Elapsed(now, stamp) > STEP_UPDATE_DELAY
\* A clear test that clears a record exactly STEP_CLEAR_DELAY after it was
\* lit.
ClearDueAtDelay(now, stamp) == Elapsed(now, stamp) >= STEP_CLEAR_DELAY
\* Line 141 and line 147.
ClearDue(now, stamp) == Elapsed(now, stamp) > STEP_CLEAR_DELAY

\* The scans of lines 161-174 and of lines 233-249.
AnyActive(active) == \E i \in Slots : active[i] = 1
\* The scan of lines 180-189, for one direction's records.
AllStepsCleared(rec) == \A i \in Slots : \A j \in Steps : rec[i][j] # 1
\* A gate that is always open.
GateOpen(anyOppositeActive, allOppositeCleared) == TRUE
\* A gate that looks at the opposite slots and not at the step records.
GateOnSlotsOnly(anyOppositeActive, allOppositeCleared) == ~anyOppositeActive
\* The conditions of line 192 and of line 204 on the opposite direction.
Gate(anyOppositeActive, allOppositeCleared) ==
  ~anyOppositeActive /\ allOppositeCleared

\* The for loops of triggerUpSequence and triggerDownSequence: the index
\* at which the loop breaks, MAX_ACTIVE_SEQUENCES when it runs to its end.
FreeSlots(active) == {i \in Slots : active[i] = 0}
\* An allocator that takes the highest free index.
LastFree(active) ==
  IF FreeSlots(active) = {} THEN MAX_ACTIVE_SEQUENCES
  ELSE CHOOSE i \in FreeSlots(active) : \A k \in FreeSlots(active) : i >= k
FirstFree(active) ==
  IF FreeSlots(active) = {} THEN MAX_ACTIVE_SEQUENCES
  ELSE CHOOSE i \in FreeSlots(active) : \A k \in FreeSlots(active) : i <= k

(* ------------------------------------------------------------------ *)
(* The bus (lines 60-70).                                             *)
(* ------------------------------------------------------------------ *)
showStep(g, step) ==
  [g EXCEPT !.dmx[step] = 255, !.writes = Append(@, <<step, 255>>)]
clearStep(g, step) ==
  [g EXCEPT !.dmx[step] = 0, !.writes = Append(@, <<step, 0>>)]

(* ------------------------------------------------------------------ *)
(* The allocators (lines 94-103 and 127-136).                         *)
(* ------------------------------------------------------------------ *)
\* An ascending allocator whose loop does not break.
triggerUpSequenceNoBreak(g, now) ==
  [g EXCEPT
     !.sequence_active_up = [i \in Slots |-> 1],
     !.currentStep = [i \in Slots |->
        IF g.sequence_active_up[i] = 0 THEN 0 ELSE g.currentStep[i]],
     !.stepUpdateMillis = [i \in Slots |->
        IF g.sequence_active_up[i] = 0 THEN now ELSE g.stepUpdateMillis[i]]]
triggerUpSequence(g, now) ==
  LET i == FirstFree(g.sequence_active_up)
  IN IF i \in Slots
     THEN [g EXCEPT !.sequence_active_up[i] = 1,
                    !.currentStep[i] = 0,
                    !.stepUpdateMillis[i] = now]
     ELSE g

\* A descending allocator that leaves the step of the slot as it finds it.
triggerDownSequenceNoReset(g, now) ==
  LET i == FirstFree(g.sequence_active_down)
  IN IF i \in Slots
     THEN [g EXCEPT !.sequence_active_down[i] = 1,
                    !.stepUpdateMillisDown[i] = now]
     ELSE g
triggerDownSequence(g, now) ==
  LET i == FirstFree(g.sequence_active_down)
  IN IF i \in Slots
     THEN [g EXCEPT !.sequence_active_down[i] = 1,
                    !.currentStepDown[i] = NUM_OF_STEPS,
                    !.stepUpdateMillisDown[i] = now]
     ELSE g

(* ------------------------------------------------------------------ *)
(* The advancers (lines 72-92 and 105-125).                           *)
(* ------------------------------------------------------------------ *)
\* Lines 74-76: slot i advances in this call.
UpAdvances(g, now, i) ==
  /\ g.sequence_active_up[i] # 0
  /\ StepDue(now, g.stepUpdateMillis[i])
  /\ g.currentStep[i] < NUM_OF_STEPS
\* Lines 107-109.
DownAdvances(g, now, i) ==
  /\ g.sequence_active_down[i] # 0
  /\ StepDue(now, g.stepUpdateMillisDown[i])
  /\ g.currentStepDown[i] > 0

\* An ascending advance that lights bus index currentStep, not
\* currentStep + 1.
upSequenceSlotSameStep(g, now, i) ==
  IF UpAdvances(g, now, i)
  THEN LET step == g.currentStep[i]
           lit == [showStep(g, step) EXCEPT
                     !.stepUpdateMillis[i] = now,
                     !.stepClearUpdateMillisUp[i][step] = now,
                     !.upSeq_active[i][step] = 1,
                     !.currentStep[i] = step + 1]
       IN IF lit.currentStep[i] = NUM_OF_STEPS
          THEN [lit EXCEPT !.sequence_active_up[i] = 0, !.currentStep[i] = 0]
          ELSE lit
  ELSE g

\* An ascending advance that does not release the slot at the last step.
upSequenceSlotNoRelease(g, now, i) ==
  IF UpAdvances(g, now, i)
  THEN LET step == g.currentStep[i]
       IN [showStep(g, step + 1) EXCEPT
             !.stepUpdateMillis[i] = now,
             !.stepClearUpdateMillisUp[i][step] = now,
             !.upSeq_active[i][step] = 1,
             !.currentStep[i] = step + 1]
  ELSE g

\* The body of the for loop of upSequence, for slot i.
upSequenceSlot(g, now, i) ==
  IF UpAdvances(g, now, i)
  THEN LET step == g.currentStep[i]
           lit == [showStep(g, step + 1) EXCEPT
                     !.stepUpdateMillis[i] = now,
                     !.stepClearUpdateMillisUp[i][step] = now,
                     !.upSeq_active[i][step] = 1,
                     !.currentStep[i] = step + 1]
       IN IF lit.currentStep[i] = NUM_OF_STEPS
          THEN [lit EXCEPT !.sequence_active_up[i] = 0, !.currentStep[i] = 0]
          ELSE lit
  ELSE g

\* The body of the for loop of downSequence, for slot i.
downSequenceSlot(g, now, i) ==
  IF DownAdvances(g, now, i)
  THEN LET step == g.currentStepDown[i]
           lit == [showStep(g, step) EXCEPT
                     !.stepUpdateMillisDown[i] = now,
                     !.stepClearUpdateMillisDown[i][step - 1] = now,
                     !.downSeq_active[i][step - 1] = 1,
                     !.currentStepDown[i] = step - 1]
       IN IF lit.currentStepDown[i] = 0
          THEN [lit EXCEPT !.sequence_active_down[i] = 0,
                           !.currentStepDown[i] = NUM_OF_STEPS]
          ELSE lit
  ELSE g

RECURSIVE upSequenceFrom(_, _, _)
upSequenceFrom(g, now, i) ==
  IF i >= MAX_ACTIVE_SEQUENCES THEN g
  ELSE upSequenceFrom(upSequenceSlot(g, now, i), now, i + 1)
\* An ascending advancer whose loop ends at the first active slot.
upSequenceFirstOnly(g, now) ==
  upSequenceSlot(g, now,
    CHOOSE i \in Slots : /\ g.sequence_active_up[i] # 0
                         /\ \A k \in Slots :
                              g.sequence_active_up[k] # 0 => i <= k)
upSequence(g, now) == upSequenceFrom(g, now, 0)

RECURSIVE downSequenceFrom(_, _, _)
downSequenceFrom(g, now, i) ==
  IF i >= MAX_ACTIVE_SEQUENCES THEN g
  ELSE downSequenceFrom(downSequenceSlot(g, now, i), now, i + 1)
downSequence(g, now) == downSequenceFrom(g, now, 0)

(* ------------------------------------------------------------------ *)
(* The clear sweep (lines 138-155).                                   *)
(* ------------------------------------------------------------------ *)
\* Lines 141-142 and lines 147-148: record (i, j) is cleared in this call.
UpClears(g, now, i, j) ==
  ClearDue(now, g.stepClearUpdateMillisUp[i][j]) /\ g.upSeq_active[i][j] = 1
DownClears(g, now, i, j) ==
  ClearDue(now, g.stepClearUpdateMillisDown[i][j]) /\ g.downSeq_active[i][j] = 1

\* The clearStep calls of the two nested for loops, in the order of the
\* loops: k counts the (i, j), ascending record before descending record.
ClearWrites(g, now) ==
  LET n == MAX_ACTIVE_SEQUENCES * NUM_OF_STEPS
      F[k \in 0 .. n] ==
        IF k = n THEN <<>>
        ELSE LET i == k \div NUM_OF_STEPS
                 j == k % NUM_OF_STEPS
             IN (IF UpClears(g, now, i, j) THEN <<j + 1>> ELSE <<>>)
                \o (IF DownClears(g, now, i, j) THEN <<j + 1>> ELSE <<>>)
                \o F[k + 1]
  IN F[0]

\* The iteration for (i, j) reads and writes the two records [i][j] only,
\* so the loops act on each record by itself; the bus writes keep their
\* order.
clearSequence(g, now) ==
  LET steps == ClearWrites(g, now)
      cleared == [g EXCEPT
        !.upSeq_active = [i \in Slots |-> [j \in Steps |->
           IF UpClears(g, now, i, j) THEN 0 ELSE g.upSeq_active[i][j]]],
        !.downSeq_active = [i \in Slots |-> [j \in Steps |->
           IF DownClears(g, now, i, j) THEN 0 ELSE g.downSeq_active[i][j]]]]
      F[k \in 0 .. Len(steps)] ==
        IF k = 0 THEN cleared ELSE clearStep(F[k - 1], steps[k])
  IN F[Len(steps)]

(* ------------------------------------------------------------------ *)
(* readSensors (lines 156-214); s1, s2 are the two digitalRead values. *)
(* ------------------------------------------------------------------ *)
\* Lines 192-194: the body of line 195 is run.
Accepts1(g, now, s1) ==
  /\ Gate(AnyActive(g.sequence_active_down), AllStepsCleared(g.downSeq_active))
  /\ s1 = "LOW"
  /\ DebounceOver(now, g.sensorUpdateMillis)
\* A test for SENSOR2 on the debounce stamp as it was on entry.
Accepts2OnEntryStamp(g0, g, now, s2) ==
  /\ Gate(AnyActive(g0.sequence_active_up), AllStepsCleared(g0.upSeq_active))
  /\ s2 = "LOW"
  /\ DebounceOver(now, g0.sensorUpdateMillis)
\* Lines 204-206, on the flags computed on entry (globals g0) and the
\* stamp as lines 192-201 left it (globals g).
Accepts2(g0, g, now, s2) ==
  /\ Gate(AnyActive(g0.sequence_active_up), AllStepsCleared(g0.upSeq_active))
  /\ s2 = "LOW"
  /\ DebounceOver(now, g.sensorUpdateMillis)

\* A readSensors in which a read of SENSOR1 that the debounce test refuses
\* restarts the debounce time.
readSensorsStampOnRead(g, now, s1, s2) ==
  LET stamp == [g EXCEPT !.sensorUpdateMillis = now, !.stripClearMillis = now]
      a == IF Accepts1(g, now, s1) THEN triggerUpSequence(stamp, now)
           ELSE IF s1 = "LOW" THEN stamp
           ELSE g
  IN IF Accepts2(g, a, now, s2)
     THEN triggerDownSequence(
            [a EXCEPT !.sensorUpdateMillis = now,
                      !.stripClearMillis = now], now)
     ELSE a
readSensors(g, now, s1, s2) ==
  LET a == IF Accepts1(g, now, s1)
           THEN triggerUpSequence(
                  [g EXCEPT !.sensorUpdateMillis = now,
                            !.stripClearMillis = now], now)
           ELSE g
  IN IF Accepts2(g, a, now, s2)
     THEN triggerDownSequence(
            [a EXCEPT !.sensorUpdateMillis = now,
                      !.stripClearMillis = now], now)
     ELSE a

(* ------------------------------------------------------------------ *)
(* sequenceHandler (lines 232-254): its three calls.                  *)
(* ------------------------------------------------------------------ *)
\* Lines 233-242.
handleUp(g, now) ==
  IF AnyActive(g.sequence_active_up) THEN upSequence(g, now) ELSE g
\* Lines 243-252.
handleDown(g, now) ==
  IF AnyActive(g.sequence_active_down) THEN downSequence(g, now) ELSE g
\* A handler that sweeps only while a slot is active.
sweepWhileActive(g, now) ==
  IF AnyActive(g.sequence_active_up) \/ AnyActive(g.sequence_active_down)
  THEN clearSequence(handleDown(handleUp(g, now), now), now)
  ELSE g
\* A handler that sweeps before it advances.
sweepFirst(g, now) ==
  handleDown(handleUp(clearSequence(g, now), now), now)
\* The three in the order of lines 240-253.
sequenceHandler(g, now) ==
  clearSequence(handleDown(handleUp(g, now), now), now)

(* ------------------------------------------------------------------ *)
(* Initial state: the initialisers of lines 38-51, before any pass.    *)
(* ------------------------------------------------------------------ *)
Init ==
  /\ sequence_active_up = [i \in Slots |-> 0]
  /\ currentStep = [i \in Slots |-> 0]
  /\ stepUpdateMillis = [i \in Slots |-> 0]
  /\ stepClearUpdateMillisUp = [i \in Slots |-> [j \in Steps |-> 0]]
  /\ upSeq_active = [i \in Slots |-> [j \in Steps |-> 0]]
  /\ sequence_active_down = [i \in Slots |-> 0]
  \* "= {NUM_OF_STEPS}" initialises element 0 only; the rest are zero.
  /\ currentStepDown = [i \in Slots |-> IF i = 0 THEN NUM_OF_STEPS ELSE 0]
  /\ stepUpdateMillisDown = [i \in Slots |-> 0]
  /\ stepClearUpdateMillisDown = [i \in Slots |-> [j \in Steps |-> 0]]
  /\ downSeq_active = [i \in Slots |-> [j \in Steps |-> 0]]
  /\ sensorUpdateMillis = 0
  /\ stripClearMillis = 0
  /\ dmx = [c \in Channels |-> 0]
  /\ millis = 0
  /\ clock = 0
  /\ tSensor = 0
  /\ tAlloc = [d \in Dirs |-> [i \in Slots |-> 0]]
  /\ tUpd = [d \in Dirs |-> [i \in Slots |-> 0]]
  /\ tLit = [d \in Dirs |-> [i \in Slots |-> [j \in Steps |-> 0]]]
  /\ trig = [s1 |-> "HIGH", s2 |-> "HIGH", anyUp |-> FALSE, anyDown |-> FALSE,
             clrUp |-> TRUE, clrDown |-> TRUE,
             freeUp |-> Slots, freeDown |-> Slots, gap |-> 0,
             stamped |-> FALSE, up |-> {}, down |-> {}, got |-> {},
             diff |-> {}]
  /\ writes = <<>>
  /\ adv = {}
  /\ clr = {}
  /\ shown = [d \in Dirs |-> [i \in Slots |-> <<>>]]
  /\ zeroed = {}
  /\ count = [stamps |-> 0, up |-> 0, down |-> 0]

(* ------------------------------------------------------------------ *)
(* What a pass did, read off the globals before and after its calls:   *)
(* g0 on entry, gR after readSensors, gU after upSequence, gD after    *)
(* downSequence.                                                       *)
(* ------------------------------------------------------------------ *)
SlotOf(d, g, i) ==
  IF d = "up"
  THEN <<g.sequence_active_up[i], g.currentStep[i], g.stepUpdateMillis[i],
         g.stepClearUpdateMillisUp[i], g.upSeq_active[i]>>
  ELSE <<g.sequence_active_down[i], g.currentStepDown[i],
         g.stepUpdateMillisDown[i], g.stepClearUpdateMillisDown[i],
         g.downSeq_active[i]>>
LitOf(d, g) == IF d = "up" THEN g.upSeq_active ELSE g.downSeq_active
\* The places where globals g and h differ: <<array, slot>>, and
\* <<name, MAX_ACTIVE_SEQUENCES>> for what is not an array over the slots.
SlotArrays ==
  {"sequence_active_up", "currentStep", "stepUpdateMillis",
   "stepClearUpdateMillisUp", "upSeq_active",
   "sequence_active_down", "currentStepDown", "stepUpdateMillisDown",
   "stepClearUpdateMillisDown", "downSeq_active"}
Diff(g, h) ==
  IF g = h THEN {}
  ELSE {p \in SlotArrays \X Slots : g[p[1]][p[2]] # h[p[1]][p[2]]}
         \cup {p \in {"sensorUpdateMillis", "stripClearMillis", "dmx", "writes"}
                       \X {MAX_ACTIVE_SEQUENCES} : g[p[1]] # h[p[1]]}
\* The slots that readSensors activated.
NewSlots(d, g0, gR) ==
  IF g0 = gR THEN {}
  ELSE {i \in Slots : SlotOf(d, g0, i)[1] = 0 /\ SlotOf(d, gR, i)[1] = 1}
\* The slots that the advancer of direction d changed, from g to h.
Advanced(d, g, h) ==
  IF g = h THEN {} ELSE {i \in Slots : SlotOf(d, g, i) # SlotOf(d, h, i)}
\* The records of slot i that it stamped or marked.
Marked(d, g, h, i) ==
  {j \in Steps : \/ SlotOf(d, g, i)[4][j] # SlotOf(d, h, i)[4][j]
                 \/ SlotOf(d, g, i)[5][j] # SlotOf(d, h, i)[5][j]}
\* The bus writes of slot i in the advancer's call on globals g.
Wrote(d, g, now, i) ==
  IF d = "up" THEN upSequenceSlot([g EXCEPT !.writes = <<>>], now, i).writes
  ELSE downSequenceSlot([g EXCEPT !.writes = <<>>], now, i).writes

(* ------------------------------------------------------------------ *)
(* loop() (lines 261-265): one pass, dt ms after the previous one      *)
(* began, the sensors reading s1 and s2.                               *)
(* ------------------------------------------------------------------ *)
Pass(dt, s1, s2) ==
  \E now \in {(millis + dt) % Wrap} : \E t \in {clock + dt} :
  \E g0 \in {Globals} :
  \E gR \in {readSensors(g0, now, s1, s2)} :
  \E gU \in {handleUp(gR, now)} :
  \E gD \in {handleDown(gU, now)} :
  \E gC \in {sequenceHandler(gR, now)} :
  \E new \in {[d \in Dirs |-> NewSlots(d, g0, gR)]} :
  \E advd \in {[d \in Dirs |-> IF d = "up" THEN Advanced(d, gR, gU)
                               ELSE Advanced(d, gU, gD)]} :
  \E marked \in {[d \in Dirs |-> [i \in advd[d] |->
                   IF d = "up" THEN Marked(d, gR, gU, i)
                   ELSE Marked(d, gU, gD, i)]]} :
  \E wrote \in {[d \in Dirs |-> [i \in advd[d] |->
                  IF d = "up" THEN Wrote(d, gR, now, i)
                  ELSE Wrote(d, gU, now, i)]]} :
  \E stamped \in {gR.sensorUpdateMillis # g0.sensorUpdateMillis
                  \/ gR.stripClearMillis # g0.stripClearMillis} :
  \E lits \in {IF advd["up"] = {} /\ advd["down"] = {} THEN tLit
               ELSE [d \in Dirs |-> [i \in Slots |->
                      IF i \in advd[d]
                      THEN [j \in Steps |-> IF j \in marked[d][i] THEN t
                                            ELSE tLit[d][i][j]]
                      ELSE tLit[d][i]]]} :
     /\ sequence_active_up' = gC.sequence_active_up
     /\ currentStep' = gC.currentStep
     /\ stepUpdateMillis' = gC.stepUpdateMillis
     /\ stepClearUpdateMillisUp' = gC.stepClearUpdateMillisUp
     /\ upSeq_active' = gC.upSeq_active
     /\ sequence_active_down' = gC.sequence_active_down
     /\ currentStepDown' = gC.currentStepDown
     /\ stepUpdateMillisDown' = gC.stepUpdateMillisDown
     /\ stepClearUpdateMillisDown' = gC.stepClearUpdateMillisDown
     /\ downSeq_active' = gC.downSeq_active
     /\ sensorUpdateMillis' = gC.sensorUpdateMillis
     /\ stripClearMillis' = gC.stripClearMillis
     /\ dmx' = gC.dmx
     /\ millis' = now
     /\ clock' = t
     /\ tSensor' = IF stamped \/ new["up"] # {} \/ new["down"] # {}
                   THEN t ELSE tSensor
     /\ tAlloc' = [d \in Dirs |-> [i \in Slots |->
          IF i \in new[d] THEN t ELSE tAlloc[d][i]]]
     /\ tUpd' = [d \in Dirs |-> [i \in Slots |->
          IF i \in new[d] \/ i \in advd[d] THEN t ELSE tUpd[d][i]]]
     /\ tLit' = lits
     /\ trig' = [s1 |-> s1, s2 |-> s2,
                 anyUp |-> AnyActive(sequence_active_up),
                 anyDown |-> AnyActive(sequence_active_down),
                 clrUp |-> AllStepsCleared(upSeq_active),
                 clrDown |-> AllStepsCleared(downSeq_active),
                 freeUp |-> FreeSlots(sequence_active_up),
                 freeDown |-> FreeSlots(sequence_active_down),
                 gap |-> t - tSensor,
                 stamped |-> stamped,
                 up |-> new["up"], down |-> new["down"],
                 \* the step and the stamp that the allocator left
                 got |-> {<<p[1], p[2], SlotOf(p[1], gR, p[2])[2],
                            SlotOf(p[1], gR, p[2])[3]>> :
                              p \in {q \in Dirs \X Slots : q[2] \in new[q[1]]}},
                 diff |-> Diff(g0, gR)]
     /\ writes' = gC.writes
     /\ adv' = {[dir |-> p[1], slot |-> p[2],
                 fresh |-> p[2] \in new[p[1]],
                 waited |-> IF p[2] \in new[p[1]] THEN 0
                            ELSE t - tUpd[p[1]][p[2]],
                 from |-> SlotOf(p[1], gR, p[2])[2],
                 to |-> SlotOf(p[1], gD, p[2])[2],
                 active |-> SlotOf(p[1], gD, p[2])[1],
                 marked |-> marked[p[1]][p[2]],
                 wrote |-> wrote[p[1]][p[2]]] :
                   p \in {q \in Dirs \X Slots : q[2] \in advd[q[1]]}}
     /\ clr' = IF gC.upSeq_active = gD.upSeq_active
                  /\ gC.downSeq_active = gD.downSeq_active
               THEN {}
               ELSE {[dir |-> p[1], slot |-> p[2], rec |-> p[3],
                      age |-> t - lits[p[1]][p[2]][p[3]]] :
                        p \in {q \in Dirs \X Slots \X Steps :
                                 /\ LitOf(q[1], gD)[q[2]][q[3]] = 1
                                 /\ LitOf(q[1], gC)[q[2]][q[3]] # 1}}
     /\ shown' = [d \in Dirs |-> [i \in Slots |->
          (IF i \in new[d] THEN <<>> ELSE shown[d][i])
            \o (IF i \in advd[d]
                THEN [k \in 1 .. Len(wrote[d][i]) |-> wrote[d][i][k][1]]
                ELSE <<>>)]]
     /\ zeroed' = zeroed \cup {gC.writes[k][1] :
                     k \in {n \in 1 .. Len(gC.writes) : gC.writes[n][2] = 0}}
     /\ count' = [stamps |-> count.stamps + (IF stamped THEN 1 ELSE 0),
                  up |-> count.up + Cardinality(new["up"]),
                  down |-> count.down + Cardinality(new["down"])]

(* ------------------------------------------------------------------ *)
(* The environment: when loop() runs and what the sensors read.       *)
(* ------------------------------------------------------------------ *)
Quiet ==
  /\ ~AnyActive(sequence_active_up) /\ ~AnyActive(sequence_active_down)
  /\ AllStepsCleared(upSeq_active) /\ AllStepsCleared(downSeq_active)
\* Nobody has been on the stairs since power-up.
Untouched == Quiet /\ tSensor = 0 /\ clock <= LastEarly
\* The sensor readings that a pass at time t can find.
Readings(t) == IF t \in ArrivalTimes THEN {"LOW", "HIGH"} ELSE {"HIGH"}
\* Persons may still arrive at or after time t.
Awaited(t) == t <= LastEarly \/ (t >= IdleUntil /\ t <= LastArrival)

\* The last time at which the model lets a pass begin.
Horizon == (IF clock < IdleUntil THEN LastEarly ELSE LastArrival) + DrainMs

\* The model follows loop() while somebody may come or the stairs are lit;
\* its clock stops once the stairs are dark and nobody is to come.
TickDue == Awaited(clock + TickMs) \/ (~Quiet /\ clock + TickMs <= Horizon)

\* The next pass of loop(), TickMs after the last.
Tick ==
  /\ TickDue
  /\ \E s1 \in Readings(clock + TickMs) : \E s2 \in Readings(clock + TickMs) :
       Pass(TickMs, s1, s2)

\* Nobody comes for a long time after power-up: the passes that read both
\* sensors HIGH on dark stairs change nothing, up to the pass at IdleUntil.
LongIdle ==
  /\ Untouched
  /\ \E s1 \in Readings(IdleUntil) : \E s2 \in Readings(IdleUntil) :
       Pass(IdleUntil - clock, s1, s2)

Next == Tick \/ LongIdle

Spec == Init /\ [][Next]_vars

\* loop() is called for ever: a pass that is due is made.  (The passes are
\* the steps that move the clock.)
Running ==
  \/ TickDue /\ clock' = clock + TickMs
  \/ Untouched /\ clock' = IdleUntil
FairSpec == Spec /\ WF_clock(Running)

(* ------------------------------------------------------------------ *)
(* Properties.  trig is what the readSensors call of the last pass     *)
(* found on entry and what it did; trig.gap is the real time since     *)
(* the debounce stamp was last written.                                *)
(* ------------------------------------------------------------------ *)
\* The sensor of direction d read LOW, the gate on the opposite direction
\* was open and the debounce time was over, on entry to readSensors.
Offered(d) ==
  /\ trig.gap >= DEBOUNCE_DELAY /\ trig.gap < Wrap
  /\ IF d = "up"
     THEN trig.s1 = "LOW" /\ ~trig.anyDown /\ trig.clrDown
     ELSE trig.s2 = "LOW" /\ ~trig.anyUp /\ trig.clrUp
Lowest(S) == CHOOSE i \in S : \A k \in S : i <= k

C2_Debounce ==
  /\ (trig.stamped \/ trig.up # {} \/ trig.down # {})
       => trig.gap >= DEBOUNCE_DELAY
  /\ (trig.up # {} \/ trig.down # {}) => trig.stamped
  /\ Cardinality(trig.up) + Cardinality(trig.down) <= 1
  /\ \A d \in Dirs : Offered(d) => trig.stamped
\* A wave starts exactly DEBOUNCE_DELAY after the stamp of an earlier one.
C2_Witness ==
  /\ trig.gap = DEBOUNCE_DELAY /\ clock > DEBOUNCE_DELAY
  /\ trig.up \cup trig.down # {}
  /\ count.up + count.down >= 2

\* C3, as the specification states it: when a sensor is offered and every
\* slot of its direction is active, readSensors changes nothing, the
\* debounce stamp included.
C3_PoolFullNoSideEffect ==
  /\ (Offered("up") /\ trig.freeUp = {})
       => (~trig.stamped /\ trig.diff = {})
  /\ (Offered("down") /\ trig.freeDown = {})
       => (~trig.stamped /\ trig.diff = {})

\* C4: when a slot of the direction is free, the allocator activates the
\* free slot of lowest index, sets its step to 0 (ascending) or NUM_OF_STEPS
\* (descending) and its update stamp to now; readSensors changes nothing
\* else but the two stamps of lines 195-196.
C4_Allocator ==
  /\ (Offered("up") /\ trig.freeUp # {}) =>
       /\ trig.up = {Lowest(trig.freeUp)} /\ trig.down = {}
       /\ trig.got = {<<"up", Lowest(trig.freeUp), 0, millis>>}
       /\ <<"sequence_active_up", Lowest(trig.freeUp)>> \in trig.diff
       /\ trig.diff \subseteq
            ({"sequence_active_up", "currentStep", "stepUpdateMillis"}
               \X {Lowest(trig.freeUp)})
            \cup ({"sensorUpdateMillis", "stripClearMillis"}
                     \X {MAX_ACTIVE_SEQUENCES})
  /\ (Offered("down") /\ ~Offered("up") /\ trig.freeDown # {}) =>
       /\ trig.down = {Lowest(trig.freeDown)} /\ trig.up = {}
       /\ trig.got = {<<"down", Lowest(trig.freeDown), NUM_OF_STEPS, millis>>}
       /\ <<"sequence_active_down", Lowest(trig.freeDown)>> \in trig.diff
       /\ trig.diff \subseteq
            ({"sequence_active_down", "currentStepDown",
              "stepUpdateMillisDown"} \X {Lowest(trig.freeDown)})
            \cup ({"sensorUpdateMillis", "stripClearMillis"}
                     \X {MAX_ACTIVE_SEQUENCES})
  /\ trig.up \subseteq trig.freeUp /\ trig.down \subseteq trig.freeDown
\* Slot 1 is busy, slots 0 and 2 are free: the new wave gets slot 0.
C4_Witness ==
  /\ trig.freeUp = {0, 2} /\ trig.up = {0}
  /\ sequence_active_up[0] = 1 /\ sequence_active_up[1] = 1

\* C5: an advance of an ascending slot at step k writes 255 to bus index
\* k + 1 and nothing else, marks record [slot][k] and no other, and leaves
\* the slot at step k + 1, or inactive at step 0 when k + 1 = NUM_OF_STEPS;
\* so the indices a slot has written since its allocation are 1, 2, ... up
\* to its step, all NUM_OF_STEPS of them at its release.  A descending slot
\* at step k writes index k, marks record [slot][k - 1], and is released at
\* step NUM_OF_STEPS after index 1; its indices are NUM_OF_STEPS, ..., 1.
C5_WaveShape ==
  /\ \A a \in adv :
       IF a.dir = "up"
       THEN /\ a.wrote = << <<a.from + 1, 255>> >>
            /\ a.marked = {a.from}
            /\ upSeq_active[a.slot][a.from] = 1
            /\ IF a.from + 1 = NUM_OF_STEPS
               THEN a.active = 0 /\ a.to = 0
               ELSE a.active = 1 /\ a.to = a.from + 1
       ELSE /\ a.wrote = << <<a.from, 255>> >>
            /\ a.marked = {a.from - 1}
            /\ downSeq_active[a.slot][a.from - 1] = 1
            /\ IF a.from - 1 = 0
               THEN a.active = 0 /\ a.to = NUM_OF_STEPS
               ELSE a.active = 1 /\ a.to = a.from - 1
  /\ \A i \in Slots :
       /\ shown["up"][i] = [k \in 1 .. Len(shown["up"][i]) |-> k]
       /\ sequence_active_up[i] = 1 => Len(shown["up"][i]) = currentStep[i]
       /\ sequence_active_up[i] = 0 =>
            /\ Len(shown["up"][i]) \in {0, NUM_OF_STEPS}
            /\ currentStep[i] = 0
       /\ shown["down"][i] =
            [k \in 1 .. Len(shown["down"][i]) |-> NUM_OF_STEPS + 1 - k]
       /\ sequence_active_down[i] = 1 =>
            Len(shown["down"][i]) = NUM_OF_STEPS - currentStepDown[i]
       /\ sequence_active_down[i] = 0 =>
            /\ Len(shown["down"][i]) \in {0, NUM_OF_STEPS}
            /\ Len(shown["down"][i]) = NUM_OF_STEPS =>
                 currentStepDown[i] = NUM_OF_STEPS
\* An ascending slot is released, having written 1, ..., NUM_OF_STEPS.
C5_Witness ==
  \E a \in adv :
    /\ a.dir = "up" /\ a.active = 0 /\ a.from = NUM_OF_STEPS - 1
    /\ shown["up"][a.slot] = [k \in 1 .. NUM_OF_STEPS |-> k]

\* C6: a slot advances only when more than STEP_UPDATE_DELAY has really
\* passed since its allocation or last advance, never in the pass that
\* allocated it; a slot is released (NUM_OF_STEPS - 1) * STEP_UPDATE_DELAY
\* or more after its allocation.
C6_WaveTiming ==
  \A a \in adv :
    /\ ~a.fresh
    /\ a.waited > STEP_UPDATE_DELAY
    /\ a.active = 0 =>
         clock - tAlloc[a.dir][a.slot] >= (NUM_OF_STEPS - 1) * STEP_UPDATE_DELAY
\* A slot is released, its last advance one pass after STEP_UPDATE_DELAY.
C6_Witness ==
  \E a \in adv :
    /\ a.active = 0
    /\ a.waited > STEP_UPDATE_DELAY
    /\ a.waited <= STEP_UPDATE_DELAY + TickMs

\* C7: the sweep clears a record, with a zero write to bus index step + 1,
\* only when it has been lit for more than STEP_CLEAR_DELAY, and in the
\* first pass in which that is so: no record is left lit for longer.  This
\* is so whatever the state of the slots.
C7_ClearTiming ==
  /\ \A c \in clr :
       /\ c.age > STEP_CLEAR_DELAY
       /\ c.age <= STEP_CLEAR_DELAY + TickMs
       /\ \E n \in 1 .. Len(writes) : writes[n] = <<c.rec + 1, 0>>
  /\ Cardinality({n \in 1 .. Len(writes) : writes[n][2] = 0})
       = Cardinality(clr)
  /\ \A n \in 1 .. Len(writes) : writes[n][2] = 0 =>
       \E c \in clr : c.rec + 1 = writes[n][1]
  /\ \A d \in Dirs : \A i \in Slots : \A j \in Steps :
       (IF d = "up" THEN upSeq_active[i][j] ELSE downSeq_active[i][j]) = 1
         => clock - tLit[d][i][j] <= STEP_CLEAR_DELAY
\* A record is cleared in a pass in which no slot is active.
C7_Witness ==
  /\ clr # {}
  /\ ~AnyActive(sequence_active_up) /\ ~AnyActive(sequence_active_down)
  /\ adv = {}

\* C8: in a pass the bus writes of the advancers come before those of the
\* sweep, and a record that an advancer marked in a pass is lit at the end
\* of that pass.
C8_Ordering ==
  /\ \A m \in 1 .. Len(writes) : \A n \in 1 .. Len(writes) :
       (writes[m][2] = 255 /\ writes[n][2] = 0) => m < n
  /\ Cardinality({n \in 1 .. Len(writes) : writes[n][2] = 255})
       = Cardinality(adv)
  /\ \A a \in adv : \A j \in a.marked :
       /\ (IF a.dir = "up" THEN upSeq_active[a.slot][j]
           ELSE downSeq_active[a.slot][j]) = 1
       /\ \A c \in clr : ~(c.dir = a.dir /\ c.slot = a.slot /\ c.rec = j)
\* A pass in which a slot advances and the sweep clears a record.
C8_Witness == adv # {} /\ clr # {}

\* readSensors has stamped once and started one ascending wave, and no more.
SingleUp == count = [stamps |-> 1, up |-> 1, down |-> 0]
\* No slot is active, the ascending slots are at step 0, no record is lit,
\* every channel has been written zero and is zero.
Dark ==
  /\ Quiet
  /\ \A i \in Slots : currentStep[i] = 0
  /\ zeroed = Channels
  /\ \A c \in Channels : dmx[c] = 0

\* C9: when loop() is called for ever, after the one ascending trigger that
\* a behaviour accepts, the system comes to be, and stays, with no slot
\* active, step 0, no record lit, and every channel written zero, last.
C9_Quiescence == <>[](SingleUp => Dark)
\* The stairs are dark again after the single ascending wave.
C9_Witness ==
  /\ SingleUp /\ Dark
  /\ \A i \in Slots : sequence_active_up[i] = 0
  /\ shown["up"][0] = [k \in 1 .. NUM_OF_STEPS |-> k]

\* C10: when the counter wraps between a stamp and the pass that tests it,
\* the test is on the time that has really passed.  A slot advances after
\* more than STEP_UPDATE_DELAY and is not left waiting longer; a record is
\* cleared after more than STEP_CLEAR_DELAY, in the first such pass; a
\* sensor is refused within DEBOUNCE_DELAY of the stamp and accepted after.
C10_Wraparound ==
  /\ \A a \in adv : (clock >= Wrap /\ clock - a.waited < Wrap) =>
       a.waited > STEP_UPDATE_DELAY /\ a.waited <= STEP_UPDATE_DELAY + TickMs
  /\ \A c \in clr : (clock >= Wrap /\ clock - c.age < Wrap) =>
       c.age > STEP_CLEAR_DELAY /\ c.age <= STEP_CLEAR_DELAY + TickMs
  /\ \A d \in Dirs : \A i \in Slots :
       (/\ clock >= Wrap /\ tUpd[d][i] < Wrap
        /\ (IF d = "up" THEN sequence_active_up[i]
            ELSE sequence_active_down[i]) = 1) =>
         /\ clock - tUpd[d][i] <= STEP_UPDATE_DELAY
         /\ Elapsed(millis, IF d = "up" THEN stepUpdateMillis[i]
                            ELSE stepUpdateMillisDown[i])
              = clock - tUpd[d][i]
  /\ \A d \in Dirs : \A i \in Slots : \A j \in Steps :
       (/\ clock >= Wrap /\ tLit[d][i][j] < Wrap
        /\ (IF d = "up" THEN upSeq_active[i][j]
            ELSE downSeq_active[i][j]) = 1) =>
         /\ clock - tLit[d][i][j] <= STEP_CLEAR_DELAY
         /\ Elapsed(millis, IF d = "up" THEN stepClearUpdateMillisUp[i][j]
                            ELSE stepClearUpdateMillisDown[i][j])
              = clock - tLit[d][i][j]
  /\ (clock >= Wrap /\ clock - trig.gap < Wrap) =>
       /\ trig.gap < DEBOUNCE_DELAY =>
            ~trig.stamped /\ trig.up = {} /\ trig.down = {}
       /\ \A d \in Dirs : Offered(d) => trig.stamped
\* A slot advances in a pass after the wrap, on a stamp from before it.
C10_Witness ==
  /\ \E a \in adv : clock >= Wrap /\ clock - a.waited < Wrap
  /\ millis < STEP_UPDATE_DELAY + TickMs

\* The active slots among the slots of one direction.
ActiveSlots(active) == {i \in Slots : active[i] # 0}

\* C11: at most MAX_ACTIVE_SEQUENCES slots of a direction are active, and a
\* readSensors call activates at most one slot of a direction: after a pass
\* the active slots are at most those active before it and one more.
C11_PoolBound ==
  /\ \A i \in Slots :
       sequence_active_up[i] \in {0, 1} /\ sequence_active_down[i] \in {0, 1}
  /\ Cardinality(ActiveSlots(sequence_active_up)) <= MAX_ACTIVE_SEQUENCES
  /\ Cardinality(ActiveSlots(sequence_active_down)) <= MAX_ACTIVE_SEQUENCES
  /\ Cardinality(trig.up) <= 1 /\ Cardinality(trig.down) <= 1
  /\ Cardinality(ActiveSlots(sequence_active_up))
       <= (MAX_ACTIVE_SEQUENCES - Cardinality(trig.freeUp))
            + Cardinality(trig.up)
  /\ Cardinality(ActiveSlots(sequence_active_down))
       <= (MAX_ACTIVE_SEQUENCES - Cardinality(trig.freeDown))
            + Cardinality(trig.down)
\* Every descending slot is active and the descending sensor is offered
\* again: the slots stay as they are.
C11_Witness ==
  /\ Offered("down") /\ trig.freeDown = {} /\ trig.down = {}
  /\ ActiveSlots(sequence_active_down) = Slots

\* C12: an active ascending slot has its step in 0 .. NUM_OF_STEPS - 1, an
\* active descending slot in 1 .. NUM_OF_STEPS; every bus write is to an
\* index in 1 .. NUM_OF_STEPS, and every record an advancer marks or the
\* sweep clears has its step index in 0 .. NUM_OF_STEPS - 1.
C12_IndexBounds ==
  /\ \A i \in Slots :
       /\ sequence_active_up[i] # 0 =>
            currentStep[i] \in 0 .. (NUM_OF_STEPS - 1)
       /\ sequence_active_down[i] # 0 =>
            currentStepDown[i] \in 1 .. NUM_OF_STEPS
  /\ \A n \in 1 .. Len(writes) : writes[n][1] \in Channels
  /\ \A a \in adv :
       /\ a.marked \subseteq Steps
       /\ a.from \in (IF a.dir = "up" THEN 0 .. (NUM_OF_STEPS - 1)
                      ELSE 1 .. NUM_OF_STEPS)
  /\ \A c \in clr : c.rec \in Steps
\* Descending slot 1, whose step was 0 at power-up, writes bus index 1.
C12_Witness ==
  \E a \in adv :
    /\ a.dir = "down" /\ a.slot = 1 /\ a.from = 1
    /\ a.wrote = << <<1, 255>> >>

\* C13: a readSensors call activates at most one slot, of both directions
\* together; when both sensors are offered in one call, the ascending wave
\* is started and the descending one is not.
C13_OneSlotPerCall ==
  /\ Cardinality(trig.up \cup {i + MAX_ACTIVE_SEQUENCES : i \in trig.down}) <= 1
  /\ (Offered("up") /\ Offered("down")) =>
       /\ trig.up = {Lowest(trig.freeUp)}
       /\ trig.down = {}
       /\ \A i \in Slots : sequence_active_down[i] = 0
\* Both sensors read LOW on dark stairs after the debounce time.
C13_Witness ==
  /\ Offered("up") /\ Offered("down")
  /\ trig.up = {0} /\ trig.down = {}
  /\ sequence_active_up[0] = 1

\* The sensor of direction d read LOW and was refused: the gate on the
\* opposite direction was closed, or the debounce time was not over.
Refused(d) ==
  IF d = "up"
  THEN /\ trig.s1 = "LOW"
       /\ trig.anyDown \/ ~trig.clrDown \/ trig.gap < DEBOUNCE_DELAY
  ELSE /\ trig.s2 = "LOW"
       /\ trig.anyUp \/ ~trig.clrUp \/ trig.gap < DEBOUNCE_DELAY
\* The sensor of direction d read HIGH.
Absent(d) == IF d = "up" THEN trig.s1 = "HIGH" ELSE trig.s2 = "HIGH"

\* C14: a readSensors call in which every sensor that reads LOW is refused,
\* by the gate or by the debounce test, changes no global, the debounce
\* stamp included; the stamp changes only in a call in which a sensor reads
\* LOW with its gate open and the debounce time over.
C14_RefusedReadNoEffect ==
  /\ (\A d \in Dirs : Absent(d) \/ Refused(d)) =>
       /\ ~trig.stamped /\ trig.diff = {}
       /\ trig.up = {} /\ trig.down = {}
  /\ trig.stamped => \E d \in Dirs : ~Absent(d) /\ ~Refused(d)
\* A sensor reads LOW within the debounce time of an earlier wave, the
\* stairs dark again or not: nothing changes.
C14_Witness ==
  /\ Refused("up") /\ ~trig.anyDown /\ trig.clrDown
  /\ trig.gap > 0 /\ trig.gap < DEBOUNCE_DELAY
  /\ clock - trig.gap >= DEBOUNCE_DELAY
  /\ trig.s2 = "HIGH" /\ trig.diff = {}
  /\ sensorUpdateMillis = (clock - trig.gap) % Wrap

Released(d, i) ==
  IF d = "up"
  THEN sequence_active_up[i] # 0 /\ sequence_active_up'[i] = 0
  ELSE sequence_active_down[i] # 0 /\ sequence_active_down'[i] = 0

\* C16: when loop() is called for ever, every slot that is active becomes
\* inactive; and a slot becomes inactive only in a pass in which the
\* advancer of its direction takes it over its last step.
C16_Termination ==
  /\ \A i \in Slots :
       /\ (sequence_active_up[i] = 1) ~> (sequence_active_up[i] = 0)
       /\ (sequence_active_down[i] = 1) ~> (sequence_active_down[i] = 0)
  /\ [][\A d \in Dirs : \A i \in Slots :
          Released(d, i) =>
            \E a \in adv' :
              /\ a.dir = d /\ a.slot = i /\ a.active = 0
              /\ a.from = (IF d = "up" THEN NUM_OF_STEPS - 1 ELSE 1)]_vars
\* A wave ends while a wave that was started after it is on its way.
C16_Witness ==
  \E a \in adv :
    /\ a.active = 0 /\ a.dir = "down"
    /\ \E k \in Slots \ {a.slot} :
         /\ sequence_active_down[k] = 1
         /\ tAlloc["down"][k] > tAlloc["down"][a.slot]

\* A slot of direction d is active or a record of direction d is lit.
InFlight(d) ==
  IF d = "up"
  THEN AnyActive(sequence_active_up) \/ ~AllStepsCleared(upSeq_active)
  ELSE AnyActive(sequence_active_down) \/ ~AllStepsCleared(downSeq_active)

C18_LitMeansOn ==
  \A i \in Slots : \A j \in Steps :
    /\ upSeq_active[i][j] = 1 => dmx[j + 1] = 255
    /\ downSeq_active[i][j] = 1 => dmx[j + 1] = 255

\* C19, as the specification states it: in every state, the initial one
\* included, an inactive ascending slot is at step 0 and an inactive
\* descending slot at step NUM_OF_STEPS.
C19_IdleSlots ==
  \A i \in Slots :
    /\ sequence_active_up[i] = 0 => currentStep[i] = 0
    /\ sequence_active_down[i] = 0 => currentStepDown[i] = NUM_OF_STEPS

====
